---- MODULE Spec2Model ----
(***************************************************************************)
(* Model of ploomber's Parallel executor                                   *)
(* (src/src/ploomber/executors/Parallel.py).                               *)
(*                                                                         *)
(* One coordinating thread runs Parallel.__call__ (pre-loop, next_task,    *)
(* the four dispatch statements, pool shutdown, exception collection).     *)
(* The ProcessPoolExecutor runs the submitted TaskBuildWrapper calls in    *)
(* at most `processes` workers and invokes the done-callback from its own  *)
(* management thread, concurrently with the coordinating thread.           *)
(***************************************************************************)
EXTENDS Integers, FiniteSets, Sequences, TLC

\* ---- bounds of the model ------------------------------------------------
NumTasks == 3
MaxProcesses == 2
MaxDup == 2

Tasks == 1..NumTasks

\* set_all = set(dag)
set_all == Tasks

TaskStatus ==
    {"WaitingUpstream", "WaitingExecution", "Executed", "Skipped",
     "Aborted", "Errored", "BrokenProcessPool"}

Satisfied == {"Executed", "Skipped"}

\* ---- the DAGs that are run (dag.values() iterates in index order) --------
Indep == [t \in Tasks |-> {}]
Chain == [t \in Tasks |-> IF t = 1 THEN {} ELSE {t - 1}]
Fork == [t \in Tasks |-> IF t = 1 THEN {} ELSE {1}]
Join == [t \in Tasks |-> IF t = NumTasks THEN 1..(NumTasks - 1) ELSE {}]
DAGs == {Indep, Chain, Fork, Join}

VARIABLES
    upstream,        \* dag: task -> set of upstream tasks
    processes,       \* self.processes (max_workers of the pool)
    status,          \* task.exec_status
    status0,         \* exec_status of every task when __call__ is entered
    done,            \* list `done`, as task -> number of occurrences
    started,         \* list `started`
    future_mapping,  \* dict future -> task (a future is named by its task)
    fstate,          \* state of the future of each task
    fresult,         \* outcome held by a finished future
    registered,      \* callback is in the future's _done_callbacks
    fcb,             \* how the callback invocation for the future ended
    nsubmits,        \* number of pool.submit calls made for each task
    poolBroken,      \* the executor is flagged broken
    pc,              \* position of the coordinating thread
    task,            \* local `task` of the loop (0 is None)
    looped,          \* next_task has returned to the loop at least once
    exitPath,        \* how the while-loop was left
    result           \* how __call__ ended

vars == <<upstream, processes, status, status0, done, started,
          future_mapping, fstate, fresult, registered, fcb, nsubmits,
          poolBroken, pc, task, looped, exitPath, result>>

\* ---- Task model: exec_status of a task is derived from its upstream ------
EffectiveStatus(up, st, t) ==
    IF st[t] \notin {"WaitingUpstream", "WaitingExecution", "Aborted"}
    THEN st[t]
    ELSE IF \E u \in up[t] : st[u] \in {"Errored", "Aborted", "BrokenProcessPool"}
    THEN "Aborted"
    ELSE IF \A u \in up[t] : st[u] \in Satisfied
    THEN "WaitingExecution"
    ELSE "WaitingUpstream"

RECURSIVE UpdateDownstream(_, _, _)
UpdateDownstream(up, st, t) ==
    IF t > NumTasks THEN st
    ELSE UpdateDownstream(up, [st EXCEPT ![t] = EffectiveStatus(up, st, t)], t + 1)

\* task.exec_status = value (the setter refreshes the downstream tasks)
SetExecStatus(up, st, t, value) ==
    UpdateDownstream(up, [st EXCEPT ![t] = value], 1)

\* faulty variant: the last task of the iteration order instead of the first
MaxOf(S) == CHOOSE x \in S : \A y \in S : x >= y

\* ---- helpers --------------------------------------------------------------
Min(S) == CHOOSE x \in S : \A y \in S : x <= y

\* done.append(task)
Append1(d, t) == [d EXCEPT ![t] = IF d[t] < MaxDup THEN d[t] + 1 ELSE MaxDup]

\* set([t.name for t in done])
set_done(d) == {t \in Tasks : d[t] > 0}

Init ==
    /\ upstream \in DAGs
    /\ processes \in 1..MaxProcesses
    /\ \E s0 \in [Tasks -> {"Executed", "Skipped", "WaitingUpstream"}] :
          /\ \A t \in Tasks : s0[t] \in Satisfied =>
                \A u \in upstream[t] : s0[u] \in Satisfied
          /\ status = UpdateDownstream(upstream, s0, 1)
    /\ status0 = status
    /\ done = [t \in Tasks |-> 0]
    /\ started = {}
    /\ future_mapping = {}
    /\ fstate = [t \in Tasks |-> "none"]
    /\ fresult = [t \in Tasks |-> "none"]
    /\ registered = [t \in Tasks |-> FALSE]
    /\ fcb = [t \in Tasks |-> "no"]
    /\ nsubmits = [t \in Tasks |-> 0]
    /\ poolBroken = FALSE
    /\ pc = "start"
    /\ task = 0
    /\ looped = FALSE
    /\ exitPath = "none"
    /\ result = "none"

\* ---- coordinating thread --------------------------------------------------

\* faulty variant of the pre-loop: Skipped tasks are not put in done
PreLoopDoneExecutedOnly(st) ==
    [t \in Tasks |-> IF st[t] = "Executed" THEN 1 ELSE 0]

\* for name in dag: if exec_status in {Executed, Skipped}: done.append(...)
PreLoopDone(st) == [t \in Tasks |-> IF st[t] \in Satisfied THEN 1 ELSE 0]

PreLoop ==
    /\ pc = "start"
    /\ done' = PreLoopDone(status)
    /\ pc' = "poll"
    /\ UNCHANGED <<upstream, processes, status, status0, started,
                   future_mapping, fstate, fresult, registered, fcb, nsubmits,
                   poolBroken, task, looped, exitPath, result>>

\* first loop of next_task: Aborted tasks are appended to done, in dag
\* order, until a BrokenProcessPool status raises StopIteration
BrokenSeen(st) == {t \in Tasks : st[t] = "BrokenProcessPool"}

FirstBroken(st) ==
    IF BrokenSeen(st) = {} THEN NumTasks + 1 ELSE Min(BrokenSeen(st))

ScanAborted(d, st) ==
    [t \in Tasks |->
        IF st[t] = "Aborted" /\ t < FirstBroken(st)
        THEN (IF d[t] < MaxDup THEN d[t] + 1 ELSE MaxDup)
        ELSE d[t]]

NextTaskScan ==
    /\ pc = "poll"
    /\ done' = ScanAborted(done, status)
    /\ IF BrokenSeen(status) # {}
       THEN /\ pc' = "exit"
            /\ exitPath' = "fatal"
       ELSE /\ pc' = "select"
            /\ UNCHANGED exitPath
    /\ UNCHANGED <<upstream, processes, status, status0, started,
                   future_mapping, fstate, fresult, registered, fcb, nsubmits,
                   poolBroken, task, looped, result>>

\* faulty variants of the readiness test of the second loop
ReadyAnyWaiting(st, sd) ==
    {t \in Tasks : st[t] \in {"WaitingExecution", "WaitingUpstream"} /\ t \notin sd}

ReadyUnlessFinished(st, sd) ==
    {t \in Tasks : st[t] \in {"WaitingExecution", "Aborted"} /\ t \notin sd}

ReadyIgnoresStarted(st, sd) == {t \in Tasks : st[t] = "WaitingExecution"}

\* second loop of next_task: exec_status == WaitingExecution and not started
Ready(st, sd) == {t \in Tasks : st[t] = "WaitingExecution" /\ t \notin sd}

\* faulty variant: the lengths are compared, len(done) >= len(set_all)
RECURSIVE LenDone(_, _)
LenDone(d, t) == IF t > NumTasks THEN 0 ELSE d[t] + LenDone(d, t + 1)

AllDoneByLength(d) == LenDone(d, 1) >= Cardinality(set_all)

\* set_done == set_all
AllDone(d) == set_done(d) = set_all

NextTaskSelect ==
    /\ pc = "select"
    /\ IF Ready(status, started) # {}
       THEN /\ task' = Min(Ready(status, started))
            /\ pc' = "submit"
            /\ looped' = TRUE
            /\ UNCHANGED exitPath
       ELSE IF AllDone(done)
       THEN /\ pc' = "exit"
            /\ exitPath' = "normal"
            /\ UNCHANGED <<task, looped>>
       ELSE /\ pc' = "poll"
            /\ looped' = TRUE
            /\ UNCHANGED <<task, exitPath>>
    /\ UNCHANGED <<upstream, processes, status, status0, done, started,
                   future_mapping, fstate, fresult, registered, fcb, nsubmits,
                   poolBroken, result>>

\* ---- completion callback ---------------------------------------------------

\* faulty variant: the pool fault is recorded as a failure of the task
CallbackStatusBrokenAsErrored(r) ==
    IF r = "BrokenProcessPool" THEN "Errored"
    ELSE IF r = "ExceptionResult" THEN "Errored"
    ELSE r

\* the status the callback writes for an outcome of future.result()
CallbackStatus(r) ==
    IF r = "BrokenProcessPool" THEN "BrokenProcessPool"
    ELSE IF r = "ExceptionResult" THEN "Errored"
    ELSE r

\* callback(future): task = future_mapping[future] raises KeyError when the
\* future is not a key yet; the futures library logs and drops that error
CallbackRuns(t) ==
    IF t \in future_mapping
    THEN /\ status' = SetExecStatus(upstream, status, t, CallbackStatus(fresult[t]))
         /\ done' = Append1(done, t)
         /\ fcb' = [fcb EXCEPT ![t] = "ran"]
    ELSE /\ fcb' = [fcb EXCEPT ![t] = "KeyError"]
         /\ UNCHANGED <<status, done>>

\* ---- dispatch: the four statements of the loop body ------------------------

\* faulty variant: a broken pool still accepts the call
SubmitNeverRaises(broken) == FALSE

\* pool.submit raises BrokenProcessPool once the executor is flagged broken
SubmitRaises(broken) == broken

\* future = pool.submit(TaskBuildWrapper(task), **kwargs)
Submit ==
    /\ pc = "submit"
    /\ IF SubmitRaises(poolBroken)
       THEN /\ pc' = "exit"
            /\ exitPath' = "raised"
            /\ UNCHANGED <<fstate, fresult, registered, fcb, nsubmits>>
       ELSE /\ pc' = "register"
            /\ fstate' = [fstate EXCEPT ![task] = "queued"]
            /\ fresult' = [fresult EXCEPT ![task] = "none"]
            /\ registered' = [registered EXCEPT ![task] = FALSE]
            /\ fcb' = [fcb EXCEPT ![task] = "no"]
            /\ nsubmits' = [nsubmits EXCEPT ![task] =
                               IF @ < MaxDup THEN @ + 1 ELSE MaxDup]
            /\ UNCHANGED exitPath
    /\ UNCHANGED <<upstream, processes, status, status0, done, started,
                   future_mapping, poolBroken, task, looped, result>>

\* future.add_done_callback(callback): a finished future calls it at once,
\* in the coordinating thread
AddDoneCallback ==
    /\ pc = "register"
    /\ pc' = "append"
    /\ IF fstate[task] = "finished"
       THEN /\ CallbackRuns(task)
            /\ UNCHANGED registered
       ELSE /\ registered' = [registered EXCEPT ![task] = TRUE]
            /\ UNCHANGED <<status, done, fcb>>
    /\ UNCHANGED <<upstream, processes, status0, started, future_mapping,
                   fstate, fresult, nsubmits, poolBroken, task, looped,
                   exitPath, result>>

\* started.append(task)
AppendStarted ==
    /\ pc = "append"
    /\ pc' = "map"
    /\ started' = started \cup {task}
    /\ UNCHANGED <<upstream, processes, status, status0, done,
                   future_mapping, fstate, fresult, registered, fcb, nsubmits,
                   poolBroken, task, looped, exitPath, result>>

\* future_mapping[future] = task
MapFuture ==
    /\ pc = "map"
    /\ pc' = "poll"
    /\ future_mapping' = future_mapping \cup {task}
    /\ task' = 0
    /\ UNCHANGED <<upstream, processes, status, status0, done, started,
                   fstate, fresult, registered, fcb, nsubmits,
                   poolBroken, looped, exitPath, result>>

\* ---- the process pool -------------------------------------------------------

\* faulty variant: the pool is created one worker too large
max_workers_plus_one(p) == p + 1

\* ProcessPoolExecutor(max_workers=self.processes)
max_workers(p) == p

Running == {t \in Tasks : fstate[t] = "running"}

\* a free worker takes a queued call
WorkerStart(t) ==
    /\ fstate[t] = "queued"
    /\ ~poolBroken
    /\ Cardinality(Running) < max_workers(processes)
    /\ fstate' = [fstate EXCEPT ![t] = "running"]
    /\ UNCHANGED <<upstream, processes, status, status0, done, started,
                   future_mapping, fresult, registered, fcb, nsubmits,
                   poolBroken, pc, task, looped, exitPath, result>>

\* TaskBuildWrapper.__call__: the build's status, or an ExceptionResult
BuildOutcomes == {"Executed", "ExceptionResult"}

\* the management thread sets one future's outcome and calls its callbacks
\* before it handles the next event of the pool
CallbackPending ==
    {t \in Tasks : fstate[t] = "finished" /\ registered[t] /\ fcb[t] = "no"}

WorkerFinish(t, r) ==
    /\ fstate[t] = "running"
    /\ CallbackPending = {}
    /\ r \in BuildOutcomes
    /\ fstate' = [fstate EXCEPT ![t] = "finished"]
    /\ fresult' = [fresult EXCEPT ![t] = r]
    /\ UNCHANGED <<upstream, processes, status, status0, done, started,
                   future_mapping, registered, fcb, nsubmits,
                   poolBroken, pc, task, looped, exitPath, result>>

\* a worker process dies: the executor is flagged broken and every pending
\* future gets the BrokenProcessPool exception
Pending == {t \in Tasks : fstate[t] \in {"queued", "running"}}

PoolAlive == pc \notin {"start", "collect", "finished"}

BreakPool ==
    /\ ~poolBroken
    /\ PoolAlive
    /\ CallbackPending = {}
    /\ \E t \in Tasks : fstate[t] # "none"
    /\ poolBroken' = TRUE
    /\ fstate' = [t \in Tasks |-> IF t \in Pending THEN "finished" ELSE fstate[t]]
    /\ fresult' = [t \in Tasks |->
                      IF t \in Pending THEN "BrokenProcessPool" ELSE fresult[t]]
    /\ UNCHANGED <<upstream, processes, status, status0, done, started,
                   future_mapping, registered, fcb, nsubmits,
                   pc, task, looped, exitPath, result>>

\* the management thread invokes the registered callback of a finished future
Callback(t) ==
    /\ fstate[t] = "finished"
    /\ registered[t]
    /\ fcb[t] = "no"
    /\ CallbackRuns(t)
    /\ UNCHANGED <<upstream, processes, status0, started, future_mapping,
                   fstate, fresult, registered, nsubmits,
                   poolBroken, pc, task, looped, exitPath, result>>

\* ---- leaving the with-block and collecting the exceptions ------------------

\* pool.shutdown(wait=True): every submitted future is finished and its
\* callback invocation is over
Quiescent ==
    \A t \in Tasks :
        fstate[t] # "none" =>
            /\ fstate[t] = "finished"
            /\ registered[t] => fcb[t] # "no"

PoolExit ==
    /\ pc = "exit"
    /\ Quiescent
    /\ IF exitPath = "raised"
       THEN /\ pc' = "finished"
            /\ result' = "BrokenProcessPool"
       ELSE /\ pc' = "collect"
            /\ UNCHANGED result
    /\ UNCHANGED <<upstream, processes, status, status0, done, started,
                   future_mapping, fstate, fresult, registered, fcb, nsubmits,
                   poolBroken, task, looped, exitPath>>

\* faulty variant: the pool fault is swallowed instead of re-raised
get_future_result_swallow(r) == r

\* get_future_result(future, future_mapping)
get_future_result(r) ==
    IF r = "BrokenProcessPool" THEN "raise BrokenProcessPool" ELSE r

\* faulty variant: every handle is kept, whatever its result
expsAll(fm, fr) == fm

\* faulty variant: the isinstance filter keeps nothing
expsEmpty(fm, fr) == {}

\* the futures kept by the comprehension: isinstance(..., ExceptionResult)
exps(fm, fr) == {t \in fm : get_future_result(fr[t]) = "ExceptionResult"}

Collect ==
    /\ pc = "collect"
    /\ pc' = "finished"
    /\ result' =
          IF \E t \in future_mapping :
                get_future_result(fresult[t]) = "raise BrokenProcessPool"
          THEN "BrokenProcessPool"
          ELSE IF exps(future_mapping, fresult) # {}
          THEN "DAGBuildError"
          ELSE "returned"
    /\ UNCHANGED <<upstream, processes, status, status0, done, started,
                   future_mapping, fstate, fresult, registered, fcb, nsubmits,
                   poolBroken, task, looped, exitPath>>

MainThread ==
    \/ PreLoop
    \/ NextTaskScan
    \/ NextTaskSelect
    \/ Submit
    \/ AddDoneCallback
    \/ AppendStarted
    \/ MapFuture
    \/ PoolExit
    \/ Collect

Next ==
    \/ MainThread
    \/ \E t \in Tasks : WorkerStart(t)
    \/ \E t \in Tasks, r \in BuildOutcomes : WorkerFinish(t, r)
    \/ \E t \in Tasks : Callback(t)
    \/ BreakPool

Spec == Init /\ [][Next]_vars

\* the scheduling the claims about termination assume: the coordinating
\* thread keeps running, the pool runs what it was given and reports it
FairSpec ==
    /\ Spec
    /\ WF_vars(MainThread)
    /\ \A t \in Tasks : WF_vars(WorkerStart(t))
    /\ \A t \in Tasks : WF_vars(\E r \in BuildOutcomes : WorkerFinish(t, r))
    /\ \A t \in Tasks : WF_vars(Callback(t))

\* ---- properties -----------------------------------------------------------

\* upstream tasks of t, direct and indirect
RECURSIVE Ancestors(_, _)
Ancestors(up, t) == up[t] \cup UNION {Ancestors(up, u) : u \in up[t]}

Descendants(up, a) == {t \in Tasks : a \in Ancestors(up, t)}

Submitted == {t \in Tasks : nsubmits[t] > 0}

\* the tasks that were not Executed/Skipped when the run started
ToBuild == {t \in Tasks : status0[t] \notin Satisfied}

\* C1: the task handed to pool.submit has status WaitingExecution, and no
\* task is ever submitted while one of its upstream tasks is not Executed
\* or Skipped.
C1_DependencyOrdering ==
    /\ pc = "submit" => status[task] = "WaitingExecution"
    /\ \A t \in Submitted : \A u \in upstream[t] : status[u] \in Satisfied

C1_Witness ==
    \E t \in Submitted : upstream[t] # {} /\ fstate[t] = "running"

\* C2: once a task is Errored, every task that depends on it, directly or
\* indirectly, is Aborted and has never been submitted to the pool; this
\* still holds when the run has ended.
C2_FailureAbortsDownstream ==
    \A a \in Tasks :
        status[a] = "Errored" =>
            \A t \in Descendants(upstream, a) :
                status[t] = "Aborted" /\ nsubmits[t] = 0

C2_Witness ==
    /\ pc = "finished"
    /\ \E a \in Tasks :
          /\ status[a] = "Errored"
          /\ \E t \in Descendants(upstream, a) : a \notin upstream[t]

\* C3: under fair scheduling of the coordinating thread, the workers and
\* the callbacks, the while-loop is eventually left.
C3_Termination == <>(exitPath # "none")

\* C4: when the loop is left by the normal-stop (set_done == set_all),
\* every task is Executed, Skipped, Errored or Aborted.
C4_NormalStopTerminal ==
    exitPath = "normal" =>
        \A t \in Tasks :
            status[t] \in {"Executed", "Skipped", "Errored", "Aborted"}

\* a step taken while some task has status BrokenProcessPool submits nothing
NoSubmitAfterBroken ==
    (BrokenSeen(status) # {}) => nsubmits' = nsubmits

\* C5 (as stated): while some task has status BrokenProcessPool no task is
\* submitted, and every task that was to be built and has not been
\* submitted still has a non-terminal status.

C5_Original ==
    /\ [][NoSubmitAfterBroken]_vars
    /\ [](BrokenSeen(status) # {} =>
            \A t \in ToBuild \ Submitted :
                status[t] \in {"WaitingExecution", "WaitingUpstream"})

\* C5 (amended): while some task has status BrokenProcessPool no task is
\* submitted, and a task that was to be built and has not been submitted is
\* never given a result: it is WaitingExecution or WaitingUpstream, or it is
\* Aborted below a task that is Errored or BrokenProcessPool; a ready one
\* (all upstream Executed/Skipped) is WaitingExecution.
C5_BrokenPoolHaltsDispatch ==
    /\ [][NoSubmitAfterBroken]_vars
    /\ [](BrokenSeen(status) # {} =>
            \A t \in ToBuild \ Submitted :
                /\ \/ status[t] \in {"WaitingExecution", "WaitingUpstream"}
                   \/ /\ status[t] = "Aborted"
                      /\ \E a \in Ancestors(upstream, t) :
                            status[a] \in {"Errored", "BrokenProcessPool"}
                /\ (\A u \in upstream[t] : status[u] \in Satisfied)
                      => status[t] = "WaitingExecution")

C5_Witness ==
    /\ BrokenSeen(status) # {}
    /\ pc = "finished"
    /\ \E t \in ToBuild \ Submitted : status[t] = "WaitingExecution"

\* C6: a run whose loop was left by the fatal-stop ends by raising an error.
C6_FatalStopRaises ==
    (pc = "finished" /\ exitPath = "fatal") => result # "returned"

C6_Witness ==
    /\ pc = "finished"
    /\ exitPath = "fatal"
    /\ \A t \in Tasks : fresult[t] # "ExceptionResult"

\* C7: a run that raises has a task that is Errored or a broken pool; a run
\* that returns without error has every task Executed or Skipped.
C7_RaisesOnlyOnFailure ==
    pc = "finished" =>
        /\ result # "returned" =>
              (\E t \in Tasks : status[t] = "Errored") \/ poolBroken
        /\ result = "returned" => \A t \in Tasks : status[t] \in Satisfied

C7_Witness ==
    /\ pc = "finished"
    /\ result = "DAGBuildError"
    /\ ~poolBroken
    /\ \E t \in Tasks : status[t] = "Executed" /\ nsubmits[t] > 0

\* C8: a task that is Executed or Skipped when the run starts is in done
\* once the pre-loop has run and is never submitted; a run started with
\* every task Executed or Skipped submits nothing, leaves the loop in the
\* first call of next_task and returns without error.
C8_Idempotence ==
    /\ \A t \in Tasks \ ToBuild :
          /\ nsubmits[t] = 0
          /\ pc # "start" => done[t] >= 1
    /\ ToBuild = {} =>
          /\ Submitted = {}
          /\ ~looped
          /\ exitPath \in {"none", "normal"}
          /\ pc = "finished" => result = "returned"

C8_Witness ==
    /\ ToBuild = {}
    /\ pc = "finished"
    /\ result = "returned"
    /\ \E t \in Tasks : status[t] = "Skipped"

\* C9: no task is submitted to the pool more than once in a run.
C9_SubmittedOnce == \A t \in Tasks : nsubmits[t] <= 1

C9_Witness ==
    /\ pc = "select"
    /\ \E t \in started :
          /\ status[t] = "WaitingExecution"
          /\ fstate[t] = "running"
          /\ t \in future_mapping

FailedAncestor(t) ==
    \E a \in Ancestors(upstream, t) : status[a] \in {"Errored", "Aborted"}

\* the build of t is over and, if it succeeded, t is Executed
BuiltAndRecorded(t) ==
    /\ fstate[t] = "finished"
    /\ fresult[t] = "Executed" => status[t] = "Executed"

\* C11: once some task is Errored, every task that was to be built
\* eventually has its build over, and is Executed if the build succeeded,
\* unless the pool breaks or the task is itself Errored or Aborted or gets
\* an Errored or Aborted upstream task.
C11_FaultContainment ==
    \A t \in Tasks :
        ((\E a \in Tasks : status[a] = "Errored") /\ t \in ToBuild)
            ~> \/ poolBroken
               \/ status[t] \in {"Errored", "Aborted"}
               \/ FailedAncestor(t)
               \/ BuiltAndRecorded(t)

\* the tasks named by the DAGBuildError
Reported ==
    IF result = "DAGBuildError" THEN exps(future_mapping, fresult) ELSE {}

\* C12: when the run has ended with no pool fault, the DAGBuildError names
\* exactly the tasks whose invocation returned an ExceptionResult (it is
\* raised exactly when there is one); no Aborted and no Executed task is
\* named.
C12_AggregateNamesFailed ==
    (pc = "finished" /\ ~poolBroken) =>
        /\ Reported = {t \in Tasks : fresult[t] = "ExceptionResult"}
        /\ (result = "DAGBuildError") <=>
              (\E t \in Tasks : fresult[t] = "ExceptionResult")
        /\ \A t \in Reported : status[t] = "Errored"

C12_Witness ==
    /\ pc = "finished"
    /\ ~poolBroken
    /\ upstream = Fork
    /\ Reported = {1}
    /\ \A t \in Tasks \ {1} : status[t] = "Aborted"

\* C13: once the callback of a task's future has been invoked, the task has
\* the status of the outcome (BrokenProcessPool, Errored or the returned
\* status) and is in done, once.
C13_CallbackTakesEffect ==
    \A t \in Tasks :
        fcb[t] # "no" =>
            /\ status[t] = CallbackStatus(fresult[t])
            /\ done[t] = 1

\* C14: the while-loop is left only by the fatal-stop, with a
\* BrokenProcessPool status present, or by the normal-stop, with done
\* holding every task; no dispatch statement ends it.
C14_TwoExitPaths ==
    /\ exitPath \in {"none", "fatal", "normal"}
    /\ exitPath = "fatal" => BrokenSeen(status) # {}
    /\ exitPath = "normal" => set_done(done) = set_all

\* C15: done holds each task at most once, so its length never exceeds the
\* number of tasks.
C15_DoneHoldsTaskOnce == \A t \in Tasks : done[t] <= 1

\* C16: a step that ends the second part of next_task while no task is
\* BrokenProcessPool hands the loop the first task, in iteration order, that
\* is WaitingExecution and not in started; with no such task it ends the
\* loop by the normal-stop exactly when the names in done are all the
\* tasks, and otherwise returns None and the loop polls again.
SelectionResult ==
    LET ready == {t \in Tasks : status[t] = "WaitingExecution" /\ t \notin started}
        names == {t \in Tasks : done[t] > 0}
    IN  (pc = "select" /\ pc' # "select" /\ BrokenSeen(status) = {}) =>
            IF ready # {}
            THEN /\ pc' = "submit"
                 /\ task' \in ready
                 /\ \A u \in ready : task' <= u
                 /\ exitPath' = "none"
            ELSE IF names = Tasks
            THEN pc' = "exit" /\ exitPath' = "normal"
            ELSE pc' = "poll" /\ exitPath' = "none" /\ task' = 0

StatusWrittenByCallback ==
    status' # status =>
        \E t \in Tasks :
            /\ fcb[t] = "no" /\ fcb'[t] = "ran"
            /\ t \in future_mapping
            /\ status'[t] = (IF fresult[t] = "BrokenProcessPool"
                             THEN "BrokenProcessPool"
                             ELSE IF fresult[t] = "ExceptionResult"
                             THEN "Errored"
                             ELSE fresult[t])
            /\ status'[t] \in {"BrokenProcessPool", "Errored", "Executed", "Skipped"}
            /\ \A u \in Tasks \ {t} :
                  status'[u] # status[u] =>
                      /\ u \in Descendants(upstream, t)
                      /\ u \notin Submitted
                      /\ status'[u] = EffectiveStatus(upstream, status', u)

PollAndDispatchKeepStatus ==
    (pc' # pc /\ pc \in {"poll", "select", "submit", "register", "append", "map"})
        => status' = status

C17_SingleWriter ==
    [][StatusWrittenByCallback /\ PollAndDispatchKeepStatus]_vars

C17_Witness ==
    \E t \in Tasks :
        /\ fcb[t] = "ran"
        /\ status[t] = "Errored"
        /\ \E u \in Descendants(upstream, t) : status[u] = "Aborted"

\* C18: no invocation of the callback finds its future missing from
\* future_mapping.
C18_CallbackFindsTask == \A t \in Tasks : fcb[t] # "KeyError"

\* C19: when the loop has been left by the normal-stop, every started task
\* has a finished future whose callback ran, and every task in done was
\* Executed/Skipped at the start, is Aborted, or is a started task whose
\* callback ran.
C19_NormalStopNothingOutstanding ==
    exitPath = "normal" =>
        /\ \A t \in started : fstate[t] = "finished" /\ fcb[t] = "ran"
        /\ \A t \in Tasks : fstate[t] # "none" => t \in started
        /\ \A t \in set_done(done) :
              \/ t \notin ToBuild
              \/ status[t] = "Aborted"
              \/ t \in started /\ fcb[t] = "ran"

C19_Witness ==
    /\ exitPath = "normal"
    /\ Tasks \ ToBuild # {}
    /\ \E t \in started : fcb[t] = "ran" /\ done[t] > 0
    /\ \E t \in Tasks : status[t] = "Aborted" /\ done[t] > 0

TypeOK ==
    /\ status \in [Tasks -> TaskStatus]
    /\ done \in [Tasks -> 0..MaxDup]
    /\ started \subseteq Tasks
    /\ future_mapping \subseteq Tasks
    /\ pc \in {"start", "poll", "select", "submit", "register", "append",
               "map", "exit", "collect", "finished"}
====
